---- MODULE Spec2Model ----
(***************************************************************************)
(* Model of main.py: the training controller (epoch loop, the three batch  *)
(* loops, learning-rate decay, checkpoint save / resume) and the           *)
(* visualisation helpers percentile and create_image.                      *)
(*                                                                         *)
(* Numbers.  Losses and accuracies are Python floats; they are modelled    *)
(* exactly as rationals [num, den].  A batch loss is a whole number of     *)
(* tenths, so a phase mean sum/len is [num |-> sum, den |-> 10 * len].     *)
(* np.inf is the record Inf.  Model parameters are identified by the       *)
(* number of optimizer steps that produced them.                           *)
(***************************************************************************)
EXTENDS Integers, Sequences, FiniteSets, TLC

VARIABLES
    flags,                \* num_epochs, save_every_n_epochs, lr, continue_from, the paths
    dirs,                 \* the directories that exist
    loader_len,           \* len(training_loader), len(validation_loader), len(testing_loader)
    dataset,              \* what a batch of each loader can be
    pc,                   \* position of the controller in __main__
    i,                    \* epoch index of the for loop
    b,                    \* index of the next batch of the running loader pass
    events,               \* events.size of the batch the loader delivered last (-1: none yet)
    sum_loss,             \* accumulated loss of the phase, in tenths
    sum_accuracy,         \* accumulated accuracy of the phase
    sum_is_tensor,        \* FALSE while sum_loss / sum_accuracy are still the int 0
    representation,       \* the name `representation`: unbound, or the batch it came from
    iteration,
    min_validation_loss,
    start_epoch,
    model,                \* the model parameters
    lr,                   \* learning rate of the optimizer, as a rational
    writer,               \* what the SummaryWriter received in the step just taken
    files,                \* checkpoint files of log_dir: name -> pickled record
    resume_file,          \* the file at the path flags.continue_from
    runs_left,            \* how many more times the program is started on this log_dir
    \* history of the current run, for the statements checked below
    nonempty_trained,     \* non-empty training batches processed in this run
    iteration0,           \* value of iteration after initialisation
    executed,             \* epochs whose training phase was entered
    skipped,              \* epochs skipped by `continue`
    best_epochs,          \* epochs in which model_best was written
    periodic_epochs,      \* epochs in which a periodic checkpoint was written
    periodic_names,       \* names of the periodic checkpoint files written in this run
    snapshot,             \* file name -> TrainingState held when the file was last written
    resume_snapshot,      \* TrainingState held when resume_file was written
    matched,              \* leading epochs whose validation loss followed Scenario
    delivered,            \* the batches the running loader pass has delivered so far
    written,              \* file name -> epoch that wrote it, and whether every training
                          \* batch from epoch 0 up to then had been non-empty
    resume_origin,        \* the same for resume_file
    \* a call of one of the visualisation helpers
    fn,                   \* "none", or the helper that has been called
    t,                    \* its tensor argument: shape <<B, C, H, W>> and contiguous data
    result                \* what it computed

vars == <<flags, dirs, loader_len, dataset, pc, i, b, events, sum_loss, sum_accuracy,
          sum_is_tensor, representation, iteration, min_validation_loss, start_epoch,
          model, lr, writer, files, resume_file, runs_left, nonempty_trained, iteration0,
          executed, skipped, best_epochs, periodic_epochs, periodic_names, snapshot,
          resume_snapshot, matched, delivered, written, resume_origin, fn, t, result>>

----------------------------------------------------------------------------
(* Bounds of the model *)

\* process runs in one behaviour: a run, then runs resumed from a file it wrote
MaxRuns == 2

\* largest population size C*H*W of a tensor handed to percentile
MaxPopulation == 160

\* most non-zero elements of a representation handed to create_image
MaxOnes == 2

----------------------------------------------------------------------------
(* Numbers *)

Rat(n, d) == [inf |-> FALSE, num |-> n, den |-> d]

\* np.inf (line 123)
Inf == [inf |-> TRUE, num |-> 0, den |-> 1]

\* Python float `x < y` on the values that occur (no nan)
Less(x, y) ==
    IF x.inf THEN FALSE
    ELSE IF y.inf THEN TRUE
    ELSE x.num * y.den < y.num * x.den

\* Python 3 round(n / d) for n >= 0, d > 0: nearest integer, ties to even
Round(n, d) ==
    LET q == n \div d
        r == n % d
    IN  IF 2 * r < d THEN q
        ELSE IF 2 * r > d THEN q + 1
        ELSE IF q % 2 = 0 THEN q ELSE q + 1

\* "%.4f" % x: the digits of x rounded to four decimals ("inf" for np.inf)
Format4(x) ==
    IF x.inf THEN [inf |-> TRUE, digits |-> 0]
    ELSE [inf |-> FALSE, digits |-> Round(x.num * 10000, x.den)]

\* the sum reported without the division by len(loader)
SumNotMean(sum, len) == Rat(sum, 10)

\* sum.item() / len(loader), with the sum in tenths
Mean(sum, len) == Rat(sum, 10 * len)

----------------------------------------------------------------------------
(* The visualisation helpers *)

Tensor(shape, data) == [shape |-> shape, data |-> data]

NoResult == [rank |-> 0, values |-> <<>>, grouped |-> Tensor(<<0, 0, 0, 0>>, <<>>),
             max_rank |-> 0, min_rank |-> 0, image |-> <<>>, raised |-> FALSE]

Numel(shape) == shape[1] * shape[2] * shape[3] * shape[4]

\* element (n, c, h, w), counted from 0, of a contiguous tensor
At(x, n, c, h, w) ==
    x.data[((n * x.shape[2] + c) * x.shape[3] + h) * x.shape[4] + w + 1]

RECURSIVE SumTo(_, _)
\* f[0] + ... + f[n - 1]
SumTo(f, n) == IF n = 0 THEN 0 ELSE SumTo(f, n - 1) + f[n - 1]

\* the grouping that takes every third channel: view(B, C // 3, 3, H, W).sum(1)
StridedElement(x, k, n, g, h, w) ==
    SumTo([j \in 0..(k - 1) |->
             x.data[(((n * k + j) * 3 + g) * x.shape[3] + h) * x.shape[4] + w + 1]], k)

\* line 76: representation.view(B, 3, C // 3, H, W).sum(2).  The view reads the
\* same contiguous memory with the channel axis split into 3 groups of C // 3.
GroupedElement(x, k, n, g, h, w) ==
    SumTo([j \in 0..(k - 1) |->
             x.data[(((n * 3 + g) * k + j) * x.shape[3] + h) * x.shape[4] + w + 1]], k)

Grouped(x) ==
    LET B == x.shape[1]
        C == x.shape[2]
        H == x.shape[3]
        W == x.shape[4]
        k == C \div 3
    IN  Tensor(<<B, 3, H, W>>,
               [p \in 1..(B * 3 * H * W) |->
                  LET w == (p - 1) % W
                      h == ((p - 1) \div W) % H
                      g == ((p - 1) \div (W * H)) % 3
                      n == (p - 1) \div (W * H * 3)
                  IN  GroupedElement(x, k, n, g, h, w)])

\* the rank computed from the population size instead of size - 1
PercentileRankOfSize(shape, q) == 1 + Round(q * (shape[2] * shape[3] * shape[4]), 100)

\* line 70: k = 1 + round(.01 * float(q) * (C * H * W - 1)).  For the q and sizes
\* used the float product is the correctly rounded q * (M - 1) / 100, which is
\* exact at every tie, so round() sees the same value as the exact quotient.
PercentileRank(shape, q) == 1 + Round(q * (shape[2] * shape[3] * shape[4] - 1), 100)

\* kthvalue(k) of a row: the k-th smallest element, counted from 1
KthValue(row, k) ==
    CHOOSE v \in {row[j] : j \in DOMAIN row} :
        /\ Cardinality({j \in DOMAIN row : row[j] < v}) < k
        /\ Cardinality({j \in DOMAIN row : row[j] <= v}) >= k

\* t.view(B, -1)[n]
Row(x, n) ==
    LET M == x.shape[2] * x.shape[3] * x.shape[4]
    IN  [j \in 1..M |-> x.data[n * M + j]]

\* lines 68-72: the per-sample percentile; kthvalue raises when k is out of range
Percentile(x, q) ==
    LET k == PercentileRank(x.shape, q)
        M == x.shape[2] * x.shape[3] * x.shape[4]
    IN  IF k < 1 \/ k > M
        THEN [rank |-> k, values |-> <<>>, raised |-> TRUE]
        ELSE [rank |-> k, raised |-> FALSE,
              values |-> [n \in 1..x.shape[1] |-> KthValue(Row(x, n - 1), k)]]

\* lines 83-84 for one element: clamp(255 * (v - lo) / (hi - lo), 0, 255).byte().
\* With hi = lo the quotient is nan (v = lo) or +-inf; the cast of nan to a byte
\* is not defined, nanbyte is the value it yields.
Normalized(v, lo, hi, nanbyte) ==
    IF hi = lo
    THEN IF v = lo THEN nanbyte ELSE IF v > lo THEN 255 ELSE 0
    ELSE IF v <= lo THEN 0
    ELSE IF v >= hi THEN 255
    ELSE (255 * (v - lo)) \div (hi - lo)

\* lines 74-88; make_grid only tiles the B images and is left out
CreateImage(x, nanbyte) ==
    LET g  == Grouped(x)
        hi == Percentile(g, 99)
        lo == Percentile(g, 1)
        M  == 3 * x.shape[3] * x.shape[4]
    IN  [grouped |-> g, max_rank |-> hi.rank, min_rank |-> lo.rank,
         rank |-> 0, values |-> <<>>,
         raised |-> hi.raised \/ lo.raised,
         image |-> IF hi.raised \/ lo.raised THEN <<>>
                   ELSE [p \in 1..Numel(g.shape) |->
                           Normalized(g.data[p], lo.values[(p - 1) \div M + 1],
                                      hi.values[(p - 1) \div M + 1], nanbyte)]]

\* tensors of a shape with ones at no more than MaxOnes places, zeros elsewhere
Sparse(shape) ==
    { Tensor(shape, [p \in 1..Numel(shape) |-> IF p \in S THEN 1 ELSE 0]) :
        S \in { S \in SUBSET (1..Numel(shape)) : Cardinality(S) <= MaxOnes } }

----------------------------------------------------------------------------
(* Checkpoint files *)

\* flags.continue_from is None
NoFile == [kind |-> "none", iteration |-> 0, loss |-> Format4(Rat(0, 1))]

\* what os.path.exists and torch.load find at a path
Absent == [exists |-> FALSE, data |-> <<>>]
Present(d) == [exists |-> TRUE, data |-> d]

\* os.path.join(flags.log_dir, "model_best.pth")
BestName == [kind |-> "model_best", iteration |-> 0, loss |-> Format4(Rat(0, 1))]

\* the periodic name without the iteration: checkpoint_<min_val_loss:.4f>
PeriodicNameLossOnly(it, m) == [kind |-> "checkpoint", iteration |-> 0, loss |-> Format4(m)]

\* "checkpoint_%05d_%.4f.pth" % (iteration, min_validation_loss); %05d pads
\* with zeros and never truncates, so the integer itself stands for its digits
PeriodicName(it, m) == [kind |-> "checkpoint", iteration |-> it, loss |-> Format4(m)]

\* the dict handed to torch.save by the best-checkpoint block
BestDict(sd, m, it) ==
    << <<"state_dict", sd>>, <<"min_val_loss", m>>, <<"iteration", it>> >>

\* the periodic dict built before the best-checkpoint block has updated
\* min_validation_loss
PeriodicDictBeforeUpdate(sd, m, it) ==
    << <<"state_dict", sd>>, <<"min_val_loss", min_validation_loss>>, <<"iteration", it>> >>

\* the dict handed to torch.save by the periodic-checkpoint block
PeriodicDict(sd, m, it) ==
    << <<"state_dict", sd>>, <<"min_val_loss", m>>, <<"iteration", it>> >>

\* ckpt[key] of a loaded checkpoint: the value pickled under that key
Lookup(pairs, key) ==
    LET k == CHOOSE j \in 1..Len(pairs) : pairs[j][1] = key
    IN  pairs[k][2]

\* torch.save(d, path): the directory with the file written (or written over)
TorchSave(fs, name, d) ==
    [n \in DOMAIN fs \cup {name} |-> IF n = name THEN d ELSE fs[n]]

\* the TrainingState of the controller
TrainingState(sd, it, m) == [model |-> sd, iteration |-> it, min_validation_loss |-> m]

----------------------------------------------------------------------------
(* Directories.  A path is the sequence of its components; <<>> is "". *)

\* os.path.dirname
Dirname(path) == SubSeq(path, 1, Len(path) - 1)

\* os.path.isdir on a set of existing directories; isdir("") is False
IsDir(ds, path) == path # <<>> /\ path \in ds

\* os.makedirs(path, exist_ok=True): the leaf and every missing parent are created
MakeDirs(ds, path) == ds \cup { SubSeq(path, 1, n) : n \in 1..Len(path) }

\* lines 47-51 of FLAGS on the directories ds: the directories afterwards, and
\* whether all four assertions passed
ParsedFlags(f, ds) ==
    LET made == MakeDirs(ds, f.log_dir)
    IN  [dirs |-> made,
         ok   |-> /\ IsDir(made, Dirname(f.log_dir))
                  /\ IsDir(made, f.validation_dataset)
                  /\ IsDir(made, f.training_dataset)
                  /\ IsDir(made, f.testing_dataset)]

----------------------------------------------------------------------------
(* Inputs: configurations and batches *)

\* a batch whose events.size is 0
EmptyBatch == [size |-> 0, loss |-> 0, accuracy |-> 0]

\* a batch with events, and the loss (tenths) and accuracy the evaluator returns
Batch(l, a) == [size |-> 1, loss |-> l, accuracy |-> a]

\* every loader can deliver empty batches
VariedData ==
    [training   |-> {EmptyBatch, Batch(5, 1)},
     validation |-> {EmptyBatch, Batch(6, 1), Batch(9, 0)},
     testing    |-> {EmptyBatch, Batch(7, 1)}]

\* no empty batches; the validation losses of Scenario can occur
ScenarioData ==
    [training   |-> {Batch(5, 1)},
     validation |-> {Batch(6, 1), Batch(7, 1), Batch(8, 0), Batch(9, 0)},
     testing    |-> {Batch(7, 1)}]

\* no empty batches
PlainData ==
    [training   |-> {Batch(5, 1)},
     validation |-> {Batch(6, 1), Batch(9, 0)},
     testing    |-> {Batch(7, 1)}]

\* epochs of the configuration with empty batches
VariedEpochs == 2

\* batches per loader pass of the configuration with empty batches
VariedLen == 2

\* epochs of the configuration for Scenario
ScenarioEpochs == 4

\* epochs of the long configuration (two learning-rate decays)
LongEpochs == 21

\* --save_every_n_epochs of the short configurations
ShortSaveEvery == 2

\* default of --save_every_n_epochs
DefaultSaveEvery == 5

\* --lr, default 1e-4
DefaultLr == Rat(1, 10000)

\* the directories the flags of the configurations name
TrainingDir == <<"training">>
ValidationDir == <<"validation">>
TestingDir == <<"testing">>
LogRoot == <<"logs">>
LogDir == <<"logs", "run">>
AllDirs == {TrainingDir, ValidationDir, TestingDir, LogRoot, LogDir}

Flags(n, s, c) ==
    [num_epochs |-> n, save_every_n_epochs |-> s, lr |-> DefaultLr, continue_from |-> c,
     log_dir |-> LogDir, training_dataset |-> TrainingDir,
     validation_dataset |-> ValidationDir, testing_dataset |-> TestingDir]

Lens(tr, va, te) == [training |-> tr, validation |-> va, testing |-> te]

\* A checkpoint left in log_dir by an earlier run of 50-batch epochs: five
\* epochs with 13 empty batches, best validation loss 0.6 in its last epoch.
EarlierBest == BestDict(237, Rat(6, 10), 237)

EarlierState == TrainingState(237, 237, Rat(6, 10))

\* it was written in epoch 4 of that run
EarlierOrigin == [epoch |-> 4, exact |-> FALSE]

\* A checkpoint left by an earlier run of 1-batch epochs without empty batches:
\* written in epoch 9, after ten training epochs.
TenthBest == BestDict(10, Rat(6, 10), 10)

TenthState == TrainingState(10, 10, Rat(6, 10))

TenthOrigin == [epoch |-> 9, exact |-> TRUE]

\* epochs of the configurations that vary the directories
StartupEpochs == 1

\* one short run for every way the directories and the resume file can be
\* present or missing at process start, with an absolute and a bare --log_dir
StartupConfigs ==
    { [flags |-> [Flags(StartupEpochs, ShortSaveEvery, c) EXCEPT !.log_dir = l],
       len |-> Lens(1, 1, 1),
       data |-> PlainData, runs |-> 1, dirs |-> d,
       resume_file |-> r, resume_snapshot |-> EarlierState,
       resume_origin |-> EarlierOrigin] :
        c \in {NoFile, BestName}, l \in {LogDir, <<"run">>},
        r \in {Absent, Present(EarlierBest)},
        d \in {d \in SUBSET AllDirs : LogDir \in d => LogRoot \in d} }

Configs ==
    { [flags |-> Flags(VariedEpochs, ShortSaveEvery, NoFile),
       len |-> Lens(VariedLen, VariedLen, VariedLen),
       data |-> VariedData, runs |-> MaxRuns, dirs |-> AllDirs,
       resume_file |-> Absent, resume_snapshot |-> EarlierState,
       resume_origin |-> EarlierOrigin],
      [flags |-> Flags(ScenarioEpochs, ShortSaveEvery, NoFile),
       len |-> Lens(1, 1, 1),
       data |-> ScenarioData, runs |-> MaxRuns, dirs |-> AllDirs,
       resume_file |-> Absent, resume_snapshot |-> EarlierState,
       resume_origin |-> EarlierOrigin],
      [flags |-> Flags(LongEpochs, DefaultSaveEvery, NoFile),
       len |-> Lens(1, 1, 1),
       data |-> PlainData, runs |-> 1, dirs |-> AllDirs,
       resume_file |-> Absent, resume_snapshot |-> EarlierState,
       resume_origin |-> EarlierOrigin],
      [flags |-> Flags(6, DefaultSaveEvery, BestName),
       len |-> Lens(50, 1, 1),
       data |-> PlainData, runs |-> 1, dirs |-> AllDirs,
       resume_file |-> Present(EarlierBest), resume_snapshot |-> EarlierState,
       resume_origin |-> EarlierOrigin],
      [flags |-> Flags(LongEpochs, DefaultSaveEvery, BestName),
       len |-> Lens(1, 1, 1),
       data |-> PlainData, runs |-> 1, dirs |-> AllDirs,
       resume_file |-> Present(TenthBest), resume_snapshot |-> TenthState,
       resume_origin |-> TenthOrigin] }
      \cup StartupConfigs

----------------------------------------------------------------------------
(* The controller *)

Unbound == [bound |-> FALSE, phase |-> "none", epoch |-> 0, batch |-> 0]

\* representation returned by model(events, ...) for batch k of a phase of epoch e
Representation(phase, e, k) == [bound |-> TRUE, phase |-> phase, epoch |-> e, batch |-> k]

NoWrite == [tag |-> "none", loss |-> Rat(0, 1), accuracy |-> Rat(0, 1), step |-> 0,
            epoch |-> 0, image |-> Unbound]

\* writer.add_scalar(<tag>/accuracy), add_scalar(<tag>/loss), add_image(<tag>/representation)
Written(tag, l, a, it, e, rep) ==
    [tag |-> tag, loss |-> l, accuracy |-> a, step |-> it, epoch |-> e, image |-> rep]

\* the sequence [0.9, 0.7, 0.8, 0.6] of validation losses
Scenario == << Rat(9, 10), Rat(7, 10), Rat(8, 10), Rat(6, 10) >>

SameValue(x, y) == ~x.inf /\ ~y.inf /\ x.num * y.den = y.num * x.den

\* state of a process before __main__ has assigned anything
Controller(c) ==
    /\ flags = c.flags
    /\ dirs = c.dirs
    /\ loader_len = c.len
    /\ dataset = c.data
    /\ files = <<>>
    /\ snapshot = <<>>
    /\ resume_file = c.resume_file
    /\ resume_snapshot = c.resume_snapshot
    /\ resume_origin = c.resume_origin
    /\ written = <<>>
    /\ delivered = <<>>
    /\ runs_left = c.runs - 1
    /\ pc = "start"
    /\ i = 0
    /\ b = 0
    /\ events = -1
    /\ sum_loss = 0
    /\ sum_accuracy = 0
    /\ sum_is_tensor = FALSE
    /\ representation = Unbound
    /\ iteration = 0
    /\ min_validation_loss = Inf
    /\ start_epoch = 0
    /\ model = 0
    /\ lr = c.flags.lr
    /\ writer = NoWrite
    /\ nonempty_trained = 0
    /\ iteration0 = 0
    /\ executed = {}
    /\ skipped = {}
    /\ best_epochs = {}
    /\ periodic_epochs = {}
    /\ periodic_names = {}
    /\ matched = 0

Init ==
    /\ \E c \in Configs : Controller(c)
    /\ fn = "none"
    /\ t = Tensor(<<1, 3, 1, 1>>, <<0, 0, 0>>)
    /\ result = NoResult

history == <<nonempty_trained, iteration0, executed, skipped, best_epochs,
             periodic_epochs, periodic_names, snapshot, matched, written>>
config == <<flags, loader_len, dataset, runs_left, resume_file, resume_snapshot,
           resume_origin, fn, t, result>>
phase_state == <<b, events, sum_loss, sum_accuracy, sum_is_tensor, representation,
                 delivered>>

\* start_epoch with floor in place of round
StartEpochFloor(it, len) == it \div len

\* start_epoch = round(iteration / len(training_loader))
StartEpoch(it, len) == Round(it, len)

\* the restore without model.load_state_dict
RestoredCountersOnly(ckpt) ==
    TrainingState(0, Lookup(ckpt, "iteration"), Lookup(ckpt, "min_val_loss"))

\* lines 112-124: the TrainingState restored from a checkpoint
Restored(ckpt) ==
    TrainingState(Lookup(ckpt, "state_dict"), Lookup(ckpt, "iteration"),
                  Lookup(ckpt, "min_val_loss"))

\* lines 92-136: FLAGS(), then construct or restore the TrainingState and build
\* the optimizer
Initialize ==
    /\ pc = "start"
    /\ dirs' = ParsedFlags(flags, dirs).dirs
    /\ IF ~ParsedFlags(flags, dirs).ok
       THEN /\ pc' = "aborted"
            /\ UNCHANGED <<model, iteration, min_validation_loss, start_epoch,
                           iteration0>>
       ELSE IF flags.continue_from # NoFile
       THEN IF ~resume_file.exists
            THEN /\ pc' = "aborted"
                 /\ UNCHANGED <<model, iteration, min_validation_loss, start_epoch,
                                iteration0>>
            ELSE LET st == Restored(resume_file.data)
                 IN  /\ model' = st.model
                     /\ iteration' = st.iteration
                     /\ min_validation_loss' = st.min_validation_loss
                     /\ start_epoch' = StartEpoch(st.iteration, loader_len.training)
                     /\ iteration0' = st.iteration
                     /\ pc' = "loop"
       ELSE /\ iteration' = 0
            /\ min_validation_loss' = Inf
            /\ start_epoch' = 0
            /\ iteration0' = 0
            /\ pc' = "loop"
            /\ UNCHANGED model
    /\ lr' = flags.lr
    /\ i' = 0
    /\ writer' = NoWrite
    /\ UNCHANGED <<config, phase_state, files,
                   nonempty_trained, executed, skipped, best_epochs, periodic_epochs,
                   periodic_names, snapshot, matched, written>>

\* line 140: the test that skips an epoch
SkipsEpoch(e, start) == e < start

\* lines 139-147: the head of the epoch loop
EpochLoop ==
    /\ pc = "loop"
    /\ IF i >= flags.num_epochs
       THEN /\ pc' = "done"
            /\ UNCHANGED <<i, phase_state, executed, skipped>>
       ELSE IF SkipsEpoch(i, start_epoch)
       THEN /\ i' = i + 1
            /\ skipped' = skipped \cup {i}
            /\ UNCHANGED <<pc, phase_state, executed>>
       ELSE /\ pc' = "train"
            /\ b' = 0
            /\ sum_loss' = 0
            /\ sum_accuracy' = 0
            /\ sum_is_tensor' = FALSE
            /\ delivered' = <<>>
            /\ executed' = executed \cup {i}
            /\ UNCHANGED <<i, events, representation, skipped>>
    /\ writer' = NoWrite
    /\ UNCHANGED <<config, dirs, iteration, min_validation_loss, start_epoch, model, lr,
                   files, nonempty_trained, iteration0,
                   best_epochs, periodic_epochs, periodic_names, snapshot, matched,
                   written>>

\* events is a torch tensor: events.size is a bound method and never equals 0
IsEmptyMethod(batch) == FALSE

\* lines 150, 192, 243: events.size == 0
IsEmpty(batch) == batch.size = 0

\* the counter advanced by the samples of a batch (2) instead of by 1
NextIterationPerSample(it) == it + 2

\* the counter never advanced
NextIterationNone(it) == it

\* line 166: iteration += 1
NextIteration(it) == it + 1

\* optimizer.step(): the parameters after one more update
OptimizerStep(m) == m + 1

\* lines 149-168: one batch of the training loop
TrainBatch ==
    /\ pc = "train"
    /\ b < loader_len.training
    /\ \E batch \in dataset.training :
         /\ events' = batch.size
         /\ delivered' = Append(delivered, batch)
         /\ nonempty_trained' = IF batch.size = 0 THEN nonempty_trained
                                 ELSE nonempty_trained + 1
         /\ IF IsEmpty(batch)
            THEN UNCHANGED <<sum_loss, sum_accuracy, sum_is_tensor, representation,
                             iteration, model>>
            ELSE /\ model' = OptimizerStep(model)
                 /\ representation' = Representation("training", i, b)
                 /\ sum_accuracy' = sum_accuracy + batch.accuracy
                 /\ sum_loss' = sum_loss + batch.loss
                 /\ sum_is_tensor' = TRUE
                 /\ iteration' = NextIteration(iteration)
    /\ b' = b + 1
    /\ writer' = NoWrite
    /\ UNCHANGED <<config, dirs, pc, i, min_validation_loss, start_epoch, lr,
                   files, iteration0, executed, skipped,
                   best_epochs, periodic_epochs, periodic_names, snapshot, matched,
                   written>>

\* line 133: ExponentialLR(optimizer, 0.5); step() multiplies the rate by gamma
SchedulerStep(rate) == Rat(rate.num, rate.den * 2)

\* the scheduler stepping in epochs 0, 10, 20, ...
DecaysFirstOfTen(e) == e % 10 = 0

\* line 170: the epochs after whose training the scheduler steps
Decays(e) == e % 10 = 9

\* lines 170-190: the end of the training phase
TrainEnd ==
    /\ pc = "train"
    /\ b = loader_len.training
    /\ lr' = IF Decays(i) THEN SchedulerStep(lr) ELSE lr
    /\ IF ~sum_is_tensor \/ ~representation.bound
       THEN \* sum_loss is still the int 0: sum_loss.item() raises AttributeError
            /\ pc' = "error"
            /\ writer' = NoWrite
            /\ UNCHANGED phase_state
       ELSE /\ writer' = Written("training", Mean(sum_loss, loader_len.training),
                                 Rat(sum_accuracy, loader_len.training), iteration, i,
                                 representation)
            /\ pc' = "validate"
            /\ b' = 0
            /\ sum_loss' = 0
            /\ sum_accuracy' = 0
            /\ sum_is_tensor' = FALSE
            /\ delivered' = <<>>
            /\ UNCHANGED <<events, representation>>
    /\ UNCHANGED <<config, dirs, i, iteration, min_validation_loss, start_epoch, model,
                   files, history>>

\* lines 191-202 and 242-253: one batch of an evaluation loop
EvalBatch(phase, batches) ==
    /\ \E batch \in batches :
         /\ events' = batch.size
         /\ delivered' = Append(delivered, batch)
         /\ IF IsEmpty(batch)
            THEN UNCHANGED <<sum_loss, sum_accuracy, sum_is_tensor, representation>>
            ELSE /\ representation' = Representation(phase, i, b)
                 /\ sum_accuracy' = sum_accuracy + batch.accuracy
                 /\ sum_loss' = sum_loss + batch.loss
                 /\ sum_is_tensor' = TRUE
    /\ b' = b + 1
    /\ writer' = NoWrite
    /\ UNCHANGED <<config, dirs, pc, i, iteration, min_validation_loss, start_epoch,
                   model, lr, files, history>>

ValidationBatch ==
    /\ pc = "validate"
    /\ b < loader_len.validation
    /\ EvalBatch("validation", dataset.validation)

\* the trigger with <= in place of <
IsNewBestOrEqual(loss, m) == ~Less(m, loss)

\* the minimum replaced by every validation loss
IsNewBestAlways(loss, m) == TRUE

\* line 216: the best-checkpoint trigger
IsNewBest(loss, m) == Less(loss, m)

\* the trigger in the last epoch of every save_every_n_epochs
IsPeriodicLastOfN(e, n) == e % n = n - 1

\* line 227: the periodic-checkpoint trigger
IsPeriodic(e, n) == e % n = 0

\* lines 204-241: the end of the validation phase and the two checkpoint triggers
ValidationEnd ==
    /\ pc = "validate"
    /\ b = loader_len.validation
    /\ IF ~sum_is_tensor \/ ~representation.bound
       THEN /\ pc' = "error"
            /\ writer' = NoWrite
            /\ UNCHANGED <<phase_state, min_validation_loss, files, best_epochs,
                           periodic_epochs, periodic_names, snapshot, matched, written>>
       ELSE LET validation_loss == Mean(sum_loss, loader_len.validation)
                best == IsNewBest(validation_loss, min_validation_loss)
                m    == IF best THEN validation_loss ELSE min_validation_loss
                fs1  == IF best
                        THEN TorchSave(files, BestName, BestDict(model, m, iteration))
                        ELSE files
                per  == IsPeriodic(i, flags.save_every_n_epochs)
                name == PeriodicName(iteration, m)
                fs2  == IF per
                        THEN TorchSave(fs1, name, PeriodicDict(model, m, iteration))
                        ELSE fs1
                st   == TrainingState(model, iteration, m)
                sn1  == IF best THEN TorchSave(snapshot, BestName, st) ELSE snapshot
                org  == [epoch |-> i,
                         exact |-> /\ flags.continue_from # NoFile => resume_origin.exact
                                   /\ nonempty_trained =
                                         Cardinality(executed) * loader_len.training]
                wr1  == IF best THEN TorchSave(written, BestName, org) ELSE written
            IN  /\ writer' = Written("validation", validation_loss,
                                     Rat(sum_accuracy, loader_len.validation),
                                     iteration, i, representation)
                /\ matched' = IF /\ flags.continue_from = NoFile
                                 /\ matched = i /\ i < Len(Scenario)
                                 /\ SameValue(validation_loss, Scenario[i + 1])
                              THEN i + 1 ELSE matched
                /\ min_validation_loss' = m
                /\ files' = fs2
                /\ best_epochs' = IF best THEN best_epochs \cup {i} ELSE best_epochs
                /\ periodic_epochs' = IF per THEN periodic_epochs \cup {i}
                                      ELSE periodic_epochs
                /\ periodic_names' = IF per THEN periodic_names \cup {name}
                                     ELSE periodic_names
                /\ snapshot' = IF per THEN TorchSave(sn1, name, st) ELSE sn1
                /\ written' = IF per THEN TorchSave(wr1, name, org) ELSE wr1
                /\ pc' = "test"
                /\ b' = 0
                /\ sum_loss' = 0
                /\ sum_accuracy' = 0
                /\ sum_is_tensor' = FALSE
                /\ delivered' = <<>>
                /\ UNCHANGED <<events, representation>>
    /\ UNCHANGED <<config, dirs, i, iteration, start_epoch, model, lr, nonempty_trained,
                   iteration0, executed, skipped>>

\* the testing loop with the body of the training loop: optimizer step and counter
TestBatchTrains ==
    /\ pc = "test"
    /\ b < loader_len.testing
    /\ \E batch \in dataset.testing :
         /\ events' = batch.size
         /\ delivered' = Append(delivered, batch)
         /\ IF IsEmpty(batch)
            THEN UNCHANGED <<sum_loss, sum_accuracy, sum_is_tensor, representation,
                             iteration, model>>
            ELSE /\ model' = OptimizerStep(model)
                 /\ representation' = Representation("testing", i, b)
                 /\ sum_accuracy' = sum_accuracy + batch.accuracy
                 /\ sum_loss' = sum_loss + batch.loss
                 /\ sum_is_tensor' = TRUE
                 /\ iteration' = NextIteration(iteration)
    /\ b' = b + 1
    /\ writer' = NoWrite
    /\ UNCHANGED <<config, dirs, pc, i, min_validation_loss, start_epoch, lr, files,
                   history>>

\* lines 242-253: one batch of the testing loop
TestBatch ==
    /\ pc = "test"
    /\ b < loader_len.testing
    /\ EvalBatch("testing", dataset.testing)

\* lines 255-266: the end of the testing phase, and of the epoch
TestEnd ==
    /\ pc = "test"
    /\ b = loader_len.testing
    /\ IF ~sum_is_tensor \/ ~representation.bound
       THEN /\ pc' = "error"
            /\ writer' = NoWrite
            /\ UNCHANGED i
       ELSE /\ writer' = Written("testing", Mean(sum_loss, loader_len.testing),
                                 Rat(sum_accuracy, loader_len.testing), iteration, i,
                                 representation)
            /\ pc' = "loop"
            /\ i' = i + 1
    /\ UNCHANGED <<config, dirs, phase_state, iteration, min_validation_loss,
                   start_epoch, model, lr, files, history>>

\* The process has ended; the program is started again with a new log_dir and
\* with --continue_from naming one of the checkpoint files of the old one.
Restart ==
    /\ pc \in {"done", "error"}
    /\ runs_left > 0
    /\ \E c \in DOMAIN files :
         /\ flags' = [flags EXCEPT !.continue_from = c]
         /\ resume_file' = Present(files[c])
         /\ resume_snapshot' = snapshot[c]
         /\ resume_origin' = written[c]
         /\ files' = <<>>
         /\ snapshot' = <<>>
         /\ written' = <<>>
         /\ delivered' = <<>>
         /\ runs_left' = runs_left - 1
         /\ pc' = "start"
         /\ i' = 0
         /\ b' = 0
         /\ events' = -1
         /\ sum_loss' = 0
         /\ sum_accuracy' = 0
         /\ sum_is_tensor' = FALSE
         /\ representation' = Unbound
         /\ iteration' = 0
         /\ min_validation_loss' = Inf
         /\ start_epoch' = 0
         /\ model' = 0
         /\ lr' = flags.lr
         /\ writer' = NoWrite
         /\ nonempty_trained' = 0
         /\ iteration0' = 0
         /\ executed' = {}
         /\ skipped' = {}
         /\ best_epochs' = {}
         /\ periodic_epochs' = {}
         /\ periodic_names' = {}
         /\ matched' = 0
    /\ UNCHANGED <<dirs, loader_len, dataset, fn, t, result>>

Next ==
    \/ Initialize
    \/ EpochLoop
    \/ TrainBatch
    \/ TrainEnd
    \/ ValidationBatch
    \/ ValidationEnd
    \/ TestBatch
    \/ TestEnd
    \/ Restart

Spec == Init /\ [][Next]_vars

----------------------------------------------------------------------------
(* Statements about the controller, checked under Spec *)

Resumed == flags.continue_from # NoFile
InPhase == pc \in {"train", "validate", "test"}

\* a step of a batch loop that took the next batch from its loader
BatchStep == InPhase /\ pc' = pc /\ b' = b + 1

\* C1: in every phase, a batch whose events.size is 0 is a pure skip: the loss
\* and accuracy sums, iteration, min_validation_loss and the model parameters
\* are the same before and after it, wherever in the pass the batch comes.
C1_EmptyBatchIsSkip ==
    [][ (BatchStep /\ events' = 0) =>
          /\ sum_loss' = sum_loss
          /\ sum_accuracy' = sum_accuracy
          /\ sum_is_tensor' = sum_is_tensor
          /\ iteration' = iteration
          /\ min_validation_loss' = min_validation_loss
          /\ model' = model ]_vars

\* an empty batch was skipped last in a testing pass that had accumulated a loss
C1_Witness ==
    /\ pc = "test" /\ events = 0 /\ b = loader_len.testing
    /\ sum_is_tensor /\ sum_loss > 0 /\ iteration > 0

\* the file model_best of a directory, or <<>> when there is none
BestFile(fs) == IF BestName \in DOMAIN fs THEN <<fs[BestName]>> ELSE <<>>

\* the step that ends a validation phase and goes through the checkpoint triggers
Checkpointing == pc = "validate" /\ pc' = "test"

\* the validation loss of the epoch, as reported to the writer
ValidationLoss == writer'.loss

\* the checkpointing step of an epoch wrote model_best and lowered the minimum
WroteBest ==
    /\ min_validation_loss' = ValidationLoss
    /\ BestName \in DOMAIN files'
    /\ Restored(files'[BestName]) = TrainingState(model, iteration, ValidationLoss)
    /\ best_epochs' = best_epochs \cup {i}

\* the checkpointing step of an epoch left model_best and the minimum alone
WroteNoBest ==
    /\ min_validation_loss' = min_validation_loss
    /\ BestFile(files') = BestFile(files)
    /\ best_epochs' = best_epochs

ScenarioDone == matched = Len(Scenario) /\ (i > 3 \/ (i = 3 /\ pc \in {"test", "error"}))

\* C2: model_best is written in an epoch exactly when its validation loss is
\* strictly below min_validation_loss as it stood before, which then becomes that
\* loss; otherwise nothing is written and the minimum stays.  A fresh run with
\* validation losses 0.9, 0.7, 0.8, 0.6 writes it in epochs 0, 1 and 3 only.
C2_BestTrigger ==
    [][ /\ Checkpointing =>
            /\ writer'.tag = "validation"
            /\ ValidationLoss = Mean(sum_loss, loader_len.validation)
            /\ IF Less(ValidationLoss, min_validation_loss) THEN WroteBest ELSE WroteNoBest
        /\ (~Checkpointing /\ pc' # "start") =>
            (best_epochs' = best_epochs /\ BestFile(files') = BestFile(files))
        /\ ScenarioDone' => (best_epochs' \cap 0..3) = {0, 1, 3} ]_vars

C2_Witness ==
    /\ ScenarioDone /\ pc = "test" /\ best_epochs = {0, 1, 3}
    /\ min_validation_loss = Rat(6, 10)

\* s is round(n / d): the integer nearest to n / d, the even one at a tie
IsNearestEven(s, n, d) ==
    /\ 2 * s * d - d <= 2 * n
    /\ 2 * n <= 2 * s * d + d
    /\ (2 * n = 2 * s * d + d \/ 2 * n = 2 * s * d - d) => s % 2 = 0

EpochsBelow(n) == 0..(n - 1)
Smaller(x, y) == IF x < y THEN x ELSE y

\* the epochs skipped and executed so far are those the loop index tells
LoopFollowsStart ==
    /\ skipped = EpochsBelow(Smaller(i, start_epoch))
    /\ executed = IF pc \in {"loop", "done"}
                  THEN start_epoch..(i - 1)
                  ELSE start_epoch..i
    /\ pc = "done" => i = flags.num_epochs
    /\ best_epochs \cup periodic_epochs \subseteq executed
    /\ writer.tag # "none" => (writer.epoch \in executed /\ writer.epoch >= start_epoch)

ResumeArithmetic ==
    pc \notin {"start", "aborted"} =>
      /\ Resumed =>
           /\ iteration0 = Lookup(resume_file.data, "iteration")
           /\ IsNearestEven(start_epoch, iteration0, loader_len.training)
           /\ iteration >= iteration0
           /\ ~Less(Lookup(resume_file.data, "min_val_loss"), min_validation_loss)
      /\ ~Resumed => start_epoch = 0
      /\ LoopFollowsStart
      /\ (Resumed /\ iteration0 = 237 /\ loader_len.training = 50) =>
           /\ start_epoch = 5
           /\ pc = "done" => (skipped = 0..4 /\ executed = {5})

\* C3: a resumed run restores iteration and min_validation_loss, computes
\* start_epoch = round(iteration / batches per training epoch) (ties to even),
\* skips exactly the epochs below start_epoch without training, validating,
\* testing, writing a checkpoint or a metric for them, and executes the others
\* in order; iteration 237 with 50 batches gives start_epoch 5, epochs 0..4 skipped.
C3_ResumeArithmetic ==
    [][ /\ ResumeArithmetic /\ ResumeArithmetic'
        /\ (pc = "loop" /\ i < flags.num_epochs /\ i < start_epoch) =>
              /\ i' = i + 1 /\ pc' = "loop"
              /\ writer' = NoWrite
              /\ UNCHANGED <<iteration, min_validation_loss, model, lr, files,
                             sum_loss, sum_accuracy, representation>>
        /\ (pc = "start" /\ pc' = "loop" /\ Resumed) =>
              /\ iteration' = Lookup(resume_file.data, "iteration")
              /\ min_validation_loss' = Lookup(resume_file.data, "min_val_loss") ]_vars

C3_Witness ==
    /\ pc = "done" /\ Resumed /\ iteration0 = 237 /\ loader_len.training = 50
    /\ skipped = 0..4 /\ executed = {5} /\ iteration = 287

\* training phases completed in this run, when it started from epoch 0
TrainingsCompleted == IF pc \in {"validate", "test"} THEN i + 1 ELSE i

RECURSIVE Halved(_, _)
\* rate * 0.5^n
Halved(rate, n) == IF n = 0 THEN rate ELSE Halved(Rat(rate.num, 2 * rate.den), n - 1)

\* the step that ends a training phase
TrainingEnds == pc = "train" /\ pc' # "train" /\ pc' # "start"

\* C4: the learning rate is halved once after the training phase of every
\* executed epoch i with i mod 10 = 9 and changes nowhere else, so a run started
\* from epoch 0 has initial_lr * 0.5 after 10 training epochs and
\* initial_lr * 0.25 after 20.
C4_LearningRateDecay ==
    [][ /\ (TrainingEnds /\ i % 10 = 9) => lr' = Rat(lr.num, 2 * lr.den)
        /\ ~(TrainingEnds /\ i % 10 = 9) => lr' = lr \/ (pc' = "start" /\ lr' = flags.lr)
        /\ (~Resumed /\ pc' \in {"loop", "train", "validate", "test", "done"}) =>
              lr' = Halved(flags.lr, TrainingsCompleted' \div 10) ]_vars

C4_Witness ==
    /\ ~Resumed /\ pc = "validate" /\ i = 19 /\ lr = Rat(1, 40000)

SameRun == pc' # "start"

\* C8: iteration grows by exactly 1 with each non-empty batch of a training
\* phase and is changed by nothing else, so it always equals its initial value
\* (0 or the restored one) plus the non-empty training batches processed so
\* far, and it never decreases.
C8_IterationCounter ==
    [][ /\ (pc = "train" /\ BatchStep /\ events' # 0) => iteration' = iteration + 1
        /\ (SameRun /\ pc # "start" /\ ~(pc = "train" /\ BatchStep /\ events' # 0)) =>
              iteration' = iteration
        /\ (SameRun /\ pc # "start") => iteration' >= iteration
        /\ (SameRun /\ ~Resumed) => iteration0' = 0
        /\ SameRun => iteration' = iteration0' + nonempty_trained' ]_vars

\* a resumed run that has trained, with empty training batches among the others
C8_Witness ==
    /\ pc = "done" /\ Resumed /\ iteration0 = 1 /\ nonempty_trained = 3
    /\ iteration = 4 /\ executed = {0, 1} /\ loader_len.training = 2

\* the periodic checkpoint files of a directory
PeriodicFiles(fs) == [n \in {m \in DOMAIN fs : m.kind = "checkpoint"} |-> fs[n]]

\* C9: a periodic checkpoint, named from (iteration, min_validation_loss), is
\* written in every executed epoch i with i mod save_every_n_epochs = 0 and in no
\* other epoch, whatever the validation loss and whether or not model_best is
\* written in the same epoch.
C9_PeriodicTrigger ==
    [][ /\ (Checkpointing /\ i % flags.save_every_n_epochs = 0) =>
              LET name == PeriodicName(iteration, min_validation_loss')
              IN  /\ name \in DOMAIN files'
                  /\ Restored(files'[name]) =
                        TrainingState(model, iteration, min_validation_loss')
                  /\ PeriodicFiles(files') = TorchSave(PeriodicFiles(files), name, files'[name])
                  /\ periodic_epochs' = periodic_epochs \cup {i}
        /\ (SameRun /\ ~(Checkpointing /\ i % flags.save_every_n_epochs = 0)) =>
              /\ PeriodicFiles(files') = PeriodicFiles(files)
              /\ periodic_epochs' = periodic_epochs
        /\ SameRun =>
              periodic_epochs' =
                 {e \in executed' : /\ e % flags.save_every_n_epochs = 0
                                    /\ (e < i' \/ pc' \in {"test", "loop", "done"})}
                    \cup {e \in periodic_epochs' : e = i' /\ pc' = "error"} ]_vars

\* epoch 2 wrote a periodic checkpoint and no model_best, epoch 0 wrote both
C9_Witness ==
    /\ pc = "test" /\ i = 2 /\ periodic_epochs = {0, 2} /\ best_epochs = {0}
    /\ Cardinality(DOMAIN PeriodicFiles(files)) = 2

\* C10: within one run any two periodic triggers write to different file names
\* checkpoint_<iteration:05d>_<min_val_loss:.4f>, so each creates a new file;
\* only model_best is written over.
C10_PeriodicNeverOverwritten ==
    [][ /\ (Checkpointing /\ i % flags.save_every_n_epochs = 0) =>
              PeriodicName(iteration, min_validation_loss') \notin DOMAIN files
        /\ SameRun =>
              /\ Cardinality(DOMAIN PeriodicFiles(files')) = Cardinality(periodic_epochs')
              /\ \A n \in DOMAIN PeriodicFiles(files) :
                    n \in DOMAIN files' /\ files'[n] = files[n] ]_vars

\* two periodic files whose names differ in the iteration only, model_best
\* written over in between
C10_Witness ==
    /\ pc = "test" /\ periodic_epochs = {0, 2} /\ best_epochs = {0, 1}
    /\ \E n1, n2 \in DOMAIN PeriodicFiles(files) :
          n1.iteration < n2.iteration /\ n1.loss # n2.loss
    /\ \E n1, n2 \in DOMAIN PeriodicFiles(snapshot) : n1 # n2

----------------------------------------------------------------------------
(* Statements about phases, start-up and errors, checked under Spec *)

\* the loader and writer tag of the phase at a position of the controller
PhaseName(p) ==
    CASE p = "train" -> "training"
      [] p = "validate" -> "validation"
      [] OTHER -> "testing"

\* the position that follows a completed phase
After(p) ==
    CASE p = "train" -> "validate"
      [] p = "validate" -> "test"
      [] OTHER -> "loop"

\* the loader pass of the running phase is exhausted
PassOver == InPhase /\ b = loader_len[PhaseName(pc)]

\* C11: whatever number of zero-size batches a pass delivers and wherever they
\* come, also when every batch of the pass is zero-size, the phase completes,
\* reports its means and its visualization, and the controller goes on to the
\* next phase; it never ends in an error.
C11_EmptyBatchesNeverAbort ==
    [][ PassOver =>
          /\ pc' = After(pc)
          /\ writer'.tag = PhaseName(pc)
          /\ writer'.image.bound ]_vars

\* a directory or file that start-up validation asks for is missing
StartupInvalid ==
    \/ flags.training_dataset \notin dirs
    \/ flags.validation_dataset \notin dirs
    \/ flags.testing_dataset \notin dirs
    \/ (Dirname(flags.log_dir) # <<>> /\ Dirname(flags.log_dir) \notin dirs)
    \/ (Resumed /\ ~resume_file.exists)

\* C12: when a dataset directory or the parent of the log directory is missing,
\* or a resume path is given and the checkpoint file does not exist, the process
\* aborts before the epoch loop, and nothing is trained or written in that run.
C12_StartupValidationFatal ==
    [][ /\ (pc = "start" /\ StartupInvalid) => pc' = "aborted"
        /\ pc = "aborted" =>
              /\ pc' = "aborted" /\ files' = <<>> /\ writer' = NoWrite
              /\ nonempty_trained' = 0 /\ executed' = {} ]_vars

\* sum of the losses (tenths) and of the accuracies of the non-empty batches
LossOver(batches) ==
    SumTo([j \in 0..(Len(batches) - 1) |->
             IF batches[j + 1].size = 0 THEN 0 ELSE batches[j + 1].loss], Len(batches))
AccuracyOver(batches) ==
    SumTo([j \in 0..(Len(batches) - 1) |->
             IF batches[j + 1].size = 0 THEN 0 ELSE batches[j + 1].accuracy], Len(batches))

\* C13: the loss and accuracy reported after a phase are the sums over the
\* non-empty batches of its pass divided by the number of batches of the phase's
\* loader, empty ones counted, not by the number of non-empty batches.
C13_ReportedMeans ==
    [][ writer'.tag # "none" =>
          /\ writer'.tag = PhaseName(pc)
          /\ Len(delivered) = loader_len[writer'.tag]
          /\ writer'.loss = Rat(LossOver(delivered), 10 * loader_len[writer'.tag])
          /\ writer'.accuracy = Rat(AccuracyOver(delivered), loader_len[writer'.tag])
          /\ writer'.step = iteration ]_vars

\* a validation pass of two batches, one of them empty, the other with loss 0.6,
\* was reported as 0.3
C13_Witness ==
    /\ writer.tag = "validation" /\ loader_len.validation = 2
    /\ writer.loss = Rat(6, 20) /\ writer.accuracy = Rat(1, 2)

\* C14: after each phase of an executed epoch exactly one visualization is
\* emitted for that phase, built from the representation produced for the last
\* batch of that phase's pass in that epoch.
C14_LastBatchVisualized ==
    [][ /\ PassOver =>
            /\ writer'.tag = PhaseName(pc)
            /\ writer'.image = Representation(PhaseName(pc), i, loader_len[PhaseName(pc)] - 1)
        /\ ~PassOver => writer'.tag = "none" ]_vars

\* C15: once initialised the controller goes through the epoch indices in
\* increasing order, skips those below start_epoch, runs Training, Validation,
\* Checkpointing, Testing in this order for each of the others, begins no phase
\* of the next epoch before testing has finished, and ends in Done, never
\* elsewhere; with start_epoch >= num_epochs no phase runs.
C15_PhaseOrderAndTermination ==
    [][ /\ (pc = "loop" /\ i >= flags.num_epochs) => (pc' = "done" /\ i' = i)
        /\ (pc = "loop" /\ i < flags.num_epochs /\ i < start_epoch) =>
              (pc' = "loop" /\ i' = i + 1)
        /\ (pc = "loop" /\ i < flags.num_epochs /\ i >= start_epoch) =>
              (pc' = "train" /\ i' = i)
        /\ PassOver => (pc' = After(pc) /\ i' = IF pc = "test" THEN i + 1 ELSE i)
        /\ (InPhase /\ ~PassOver) => (pc' = pc /\ i' = i)
        /\ pc' = "done" =>
              /\ executed' = start_epoch'..(flags.num_epochs - 1)
              /\ start_epoch' >= flags.num_epochs => nonempty_trained' = 0 ]_vars

\* C16: validation and testing phases leave iteration and the model parameters
\* unchanged; a testing phase also leaves min_validation_loss unchanged and
\* writes no checkpoint.
C16_EvaluationDoesNotTrain ==
    [][ /\ pc \in {"validate", "test"} =>
              /\ iteration' = iteration
              /\ model' = model
              /\ lr' = lr
        /\ pc = "test" =>
              /\ min_validation_loss' = min_validation_loss
              /\ files' = files
              /\ best_epochs' = best_epochs
              /\ periodic_epochs' = periodic_epochs ]_vars

\* the testing pass of epoch 1 has accumulated a loss; two training batches so far
C16_Witness ==
    /\ pc = "test" /\ i = 1 /\ b = loader_len.testing /\ sum_loss = 7
    /\ iteration = 2 /\ model = 2 /\ BestName \in DOMAIN files

\* the smaller of two losses
Lower(x, y) == IF Less(y, x) THEN y ELSE x

\* C17: min_validation_loss starts as +infinity (fresh run) or the restored
\* value (resumed run); the checkpointing step of an epoch makes it the smaller
\* of its value and the epoch's validation loss, and nothing else changes it, so
\* after every epoch it is the minimum of the initial value and all validation
\* losses of the run so far, and it never increases.
C17_MinimumOfValidationLosses ==
    [][ /\ Checkpointing => min_validation_loss' = Lower(min_validation_loss, ValidationLoss)
        /\ (pc = "start" /\ pc' = "loop") =>
              min_validation_loss' = IF Resumed THEN Lookup(resume_file.data, "min_val_loss")
                                     ELSE Inf
        /\ (pc # "start" /\ SameRun /\ ~Checkpointing) =>
              min_validation_loss' = min_validation_loss
        /\ (pc # "start" /\ SameRun) => ~Less(min_validation_loss, min_validation_loss') ]_vars

\* validation losses 0.9, 0.7, 0.8: the minimum after epoch 2 is still 0.7
C17_Witness ==
    /\ pc = "test" /\ i = 2 /\ matched = 3 /\ min_validation_loss = Rat(7, 10)
    /\ ~Resumed

\* the checkpoint resumed from was written in epoch e of a run that started at
\* epoch 0 (itself, or the run it resumed from) and met no empty training batch
ResumedExact == Resumed /\ resume_origin.exact /\ pc \notin {"start", "aborted"}

\* C18: when no training batch has been empty since epoch 0, every checkpoint
\* written during epoch e records iteration = (e + 1) * len(training_loader),
\* and a run resumed from it computes start_epoch = e + 1: it skips the epochs
\* 0..e the writing run had trained and goes on with epoch e + 1.
C18_ExactResume ==
    /\ \A n \in DOMAIN files :
          written[n].exact =>
              Lookup(files[n], "iteration") = (written[n].epoch + 1) * loader_len.training
    /\ ResumedExact =>
          /\ iteration0 = (resume_origin.epoch + 1) * loader_len.training
          /\ start_epoch = resume_origin.epoch + 1
          /\ skipped \subseteq 0..resume_origin.epoch
          /\ executed \cap 0..resume_origin.epoch = {}
          /\ pc = "done" =>
                executed = (resume_origin.epoch + 1)..(flags.num_epochs - 1)

\* a run resumed from the model_best written in epoch 1 has executed epochs 2, 3
C18_Witness ==
    /\ ResumedExact /\ resume_origin.epoch = 1 /\ flags.continue_from = BestName
    /\ pc = "done" /\ iteration0 = 2 /\ start_epoch = 2 /\ executed = {2, 3}
    /\ \E n \in DOMAIN files : written[n].exact /\ written[n].epoch = 3

\* C19: the learning rate a resumed run uses in the training phase of epoch i is
\* the one an uninterrupted run uses there, initial_lr * 0.5^floor(i / 10); a
\* resume does not reset the decay schedule.
C19_ResumeKeepsSchedule ==
    (Resumed /\ pc = "train") => lr = Halved(flags.lr, i \div 10)

\* the checkpoint files the checkpointing step of an epoch wrote
WrittenNow == {n \in DOMAIN files' : n \notin DOMAIN files \/ files'[n] # files[n]}

\* C20: every checkpoint written in an epoch records the min_validation_loss as
\* updated in that epoch, which is at most the epoch's validation loss, the
\* iteration reached at the end of the epoch's training phase and the current
\* parameters; when model_best and a periodic checkpoint are written in the same
\* epoch, both record the same three values.
C20_CheckpointContent ==
    [][ Checkpointing =>
          /\ \A n \in WrittenNow :
                /\ Lookup(files'[n], "min_val_loss") = min_validation_loss'
                /\ ~Less(ValidationLoss, Lookup(files'[n], "min_val_loss"))
                /\ Lookup(files'[n], "iteration") = iteration0 + nonempty_trained
                /\ Lookup(files'[n], "state_dict") = model
          /\ WrittenNow = {BestName : e \in best_epochs' \ best_epochs}
                 \cup {PeriodicName(iteration, min_validation_loss') :
                          e \in periodic_epochs' \ periodic_epochs}
          /\ (i \in best_epochs' /\ i \in periodic_epochs') =>
                Restored(files'[BestName]) =
                   Restored(files'[PeriodicName(iteration, min_validation_loss')]) ]_vars

\* epoch 2 wrote both model_best and a periodic checkpoint, with the new minimum 0.7
C20_Witness ==
    /\ pc = "test" /\ i = 2 /\ i \in best_epochs /\ i \in periodic_epochs
    /\ min_validation_loss = Rat(7, 10)
    /\ Restored(files[BestName]) = Restored(files[PeriodicName(iteration, Rat(7, 10))])
    /\ Cardinality(DOMAIN files) = 3

----------------------------------------------------------------------------
(* The visualisation helpers on their own *)

\* shapes of the representations handed to create_image
ImageShapes == { <<1, 9, 1, 1>>, <<1, 9, 1, 2>>, <<2, 6, 1, 1>>, <<1, 3, 2, 1>> }

\* a tensor 1..M of population size M, for percentile
Ramp(M) == Tensor(<<1, 1, 1, M>>, [p \in 1..M |-> p])

\* a representation whose grouped image is the ramp 1..3W
WideRamp(W) == Tensor(<<1, 3, 1, W>>, [p \in 1..(3 * W) |-> p])

InitImage ==
    /\ Controller(CHOOSE c \in Configs : /\ c.flags.num_epochs = LongEpochs
                                          /\ c.flags.continue_from = NoFile)
    /\ fn = "none"
    /\ result = NoResult
    /\ t \in UNION { Sparse(shape) : shape \in ImageShapes }
             \cup { Ramp(M) : M \in 1..MaxPopulation }
             \cup { WideRamp(W) : W \in 1..(MaxPopulation \div 3) }

controller == <<flags, dirs, loader_len, dataset, pc, i, b, events, sum_loss, sum_accuracy,
                sum_is_tensor, representation, iteration, min_validation_loss,
                start_epoch, model, lr, writer, files, resume_file,
                runs_left, nonempty_trained, iteration0, executed, skipped,
                best_epochs, periodic_epochs, periodic_names, snapshot,
                resume_snapshot, matched, delivered, written, resume_origin>>

CallCreateImage ==
    /\ fn = "none"
    /\ t.shape[2] % 3 = 0
    /\ \E nanbyte \in {0, 255} : result' = CreateImage(t, nanbyte)
    /\ fn' = "create_image"
    /\ UNCHANGED <<t, controller>>

CallPercentile ==
    /\ fn = "none"
    /\ \E q \in {1, 99} :
         /\ result' = [NoResult EXCEPT !.rank = Percentile(t, q).rank,
                                       !.values = Percentile(t, q).values,
                                       !.raised = Percentile(t, q).raised]
         /\ fn' = IF q = 1 THEN "percentile_1" ELSE "percentile_99"
    /\ UNCHANGED <<t, controller>>

NextImage ==
    \/ CallCreateImage
    \/ CallPercentile

SpecImage == InitImage /\ [][NextImage]_vars

----------------------------------------------------------------------------
(* Statements about the visualisation helpers, checked under SpecImage *)

\* the places (n, h, w) of a tensor
Places(x) == (0..(x.shape[1] - 1)) \X (0..(x.shape[3] - 1)) \X (0..(x.shape[4] - 1))

\* output channel g is the elementwise sum of the input channels c1, c2, c3
SumsChannels(g, c1, c2, c3) ==
    \A p \in Places(t) :
        At(result.grouped, p[1], g, p[2], p[3]) =
            At(t, p[1], c1, p[2], p[3]) + At(t, p[1], c2, p[2], p[3])
                + At(t, p[1], c3, p[2], p[3])

NineChannels == fn = "create_image" /\ t.shape[2] = 9

\* C6 as stated: for C = 9 create_image sums input channels {0,3,6} into output
\* channel 0, {1,4,7} into 1 and {2,5,8} into 2, and has exactly 3 output channels.
C6_StridedGrouping ==
    NineChannels =>
        /\ result.grouped.shape[2] = 3
        /\ SumsChannels(0, 0, 3, 6)
        /\ SumsChannels(1, 1, 4, 7)
        /\ SumsChannels(2, 2, 5, 8)

\* C6 amended: for C = 9 create_image has exactly 3 output channels; output
\* channel 0 is the elementwise sum of input channels {0,1,2}, 1 of {3,4,5} and
\* 2 of {6,7,8}.
C6_ContiguousGrouping ==
    NineChannels =>
        /\ result.grouped.shape = <<t.shape[1], 3, t.shape[3], t.shape[4]>>
        /\ Len(result.grouped.data) = Numel(result.grouped.shape)
        /\ SumsChannels(0, 0, 1, 2)
        /\ SumsChannels(1, 3, 4, 5)
        /\ SumsChannels(2, 6, 7, 8)

\* a 9-channel representation with two pixels whose only non-zero elements are in
\* channels 1 and 3 of different pixels
C6_Witness ==
    /\ NineChannels /\ t.shape[4] = 2
    /\ At(t, 0, 1, 0, 0) = 1 /\ At(t, 0, 3, 0, 1) = 1
    /\ At(result.grouped, 0, 0, 0, 0) = 1 /\ At(result.grouped, 0, 1, 0, 1) = 1

Population == t.shape[2] * t.shape[3] * t.shape[4]

\* k is 1 + the integer nearest to q / 100 * (M - 1)
IsRank(k, q, M) ==
    /\ 100 * (k - 1) - 50 <= q * (M - 1)
    /\ q * (M - 1) <= 100 * (k - 1) + 50

\* C7: in percentile(t, q) with q = 1 or 99 and a population of M = C*H*W >= 1
\* values, the rank k = 1 + round(q/100 * (M-1)) satisfies 1 <= k <= M, and
\* the rank for q = 1 does not exceed the rank for q = 99.
C7_PercentileRank ==
    /\ fn \in {"percentile_1", "percentile_99"} =>
         /\ IsRank(result.rank, IF fn = "percentile_1" THEN 1 ELSE 99, Population)
         /\ 1 <= result.rank /\ result.rank <= Population
         /\ ~result.raised
         /\ Len(result.values) = t.shape[1]
    /\ fn = "percentile_1" => result.rank <= PercentileRank(t.shape, 99)
    /\ fn = "percentile_99" => PercentileRank(t.shape, 1) <= result.rank
    /\ fn = "create_image" =>
         /\ IsRank(result.min_rank, 1, 3 * t.shape[3] * t.shape[4])
         /\ IsRank(result.max_rank, 99, 3 * t.shape[3] * t.shape[4])
         /\ 1 <= result.min_rank /\ result.min_rank <= result.max_rank
         /\ result.max_rank <= 3 * t.shape[3] * t.shape[4]
         /\ ~result.raised

\* the 99th percentile of 51 values: 1 + round(49.5) = 51, the largest value
C7_Witness ==
    /\ fn = "percentile_99" /\ Population = 51 /\ result.rank = 51
    /\ result.values = <<51>>

====
